---- MODULE Spec2Model ----
(***************************************************************************)
(* gokr-packer (cmd/gokr-packer/packer.go): one run of main/logic as a     *)
(* sequential state machine.  A file is its size plus the list of writes   *)
(* made to it (offset, length, what was written); byte counts are real     *)
(* byte counts.  Every call that can return an error is a step that either *)
(* succeeds or fails.                                                      *)
(***************************************************************************)
EXTENDS Integers, Sequences, FiniteSets, TLC

(* ------------------------------ constants ------------------------------ *)
MB == 1024 * 1024
SectorSize == 512
\* packer.go:397  lower := 1100*MB + 8192
Lower == 1100 * MB + 8192
\* the minimum the specification states: 1100 MiB + the 4 MiB alignment offset
SpecLower == 1100 * MB + 4 * MB
\* len(mbr[:]) of the record mbr.Configure returns
MBRLen == 446
\* io.Copy's buffer
CopyBuf == 32 * 1024

(* -------------------------------- bounds ------------------------------- *)
\* the most Write calls one writeBoot makes
MaxBootWrites == 2

Nil == "nil"
NoPath == << >>
NoFile == [path |-> NoPath, pos |-> 0]
NilReader == [set |-> FALSE, path |-> NoPath, off |-> 0, n |-> 0]
Unlimited == -1

ChunkLens == {512, 700}
\* writeRoot makes one Write of the whole root image, short or longer than
\* io.Copy's buffer
RootLens == {700, 40000}
ExtentOffsets == {2048, 4100}
ExtentError == -1

DevicePaths == { <<"/dev/sd", "b">>, <<"/dev/mmcblk", "0">>,
                 <<"/dev/disk", "2">>, <<"/dev/rdisk", "2">> }
ImagePath == <<"/tmp/gokrazy.img">>
BootImagePath == <<"/tmp/boot.fat">>
RootImagePath == <<"/tmp/root.fat">>
InitPath == <<"/tmp/init.go">>
TmpDirPath == <<"$TMPDIR/gokr-packer-init">>
TmpOFPath == <<"$TMPDIR/gokr-packer">>
TmpBootPath == <<"$TMPDIR/gokrazy", "a">>
TmpRootPath == <<"$TMPDIR/gokrazy", "b">>
ScratchPaths == {TmpDirPath, TmpOFPath, TmpBootPath, TmpRootPath}

GoodURL == "http://gokrazy:pw@gokrazy/"
BadURL == "http://%zz/"
UpdateValues == {"", "yes", GoodURL, BadURL}

TargetSizes == {0, 777, 1000 * MB, Lower - SectorSize, Lower,
                SpecLower - SectorSize, 1200 * MB, 1200 * MB + 1}

BootChunkSeqs == UNION {[1..k -> ChunkLens] : k \in 1..MaxBootWrites}
RootChunkSeqs == {<<n>> : n \in RootLens}

VARIABLES
  overwrite, overwriteStat, overwriteBoot, overwriteRoot, overwriteInit,
  initPkg, update, targetStorageBytes,
  pc, err, isDev, bootSize, rootSize, tmpBoot, tmpRoot,
  f, tmp, bs, rs, fs, defers, ofDefers,
  rootReader, bootReader, calls,
  vmlinuzOffset, cmdlineOffset,
  nodes, steps, failed,
  ors, under, direct, last

flags == <<overwrite, overwriteStat, overwriteBoot, overwriteRoot,
           overwriteInit, initPkg, targetStorageBytes>>
locals == <<isDev, bootSize, rootSize, tmpBoot, tmpRoot>>
ofLocals == <<f, tmp, bs, rs, ofDefers>>
readers == <<rootReader, bootReader>>
mbrLocals == <<vmlinuzOffset, cmdlineOffset>>
\* an offsetReadSeeker, the stream it wraps, a second handle on the same
\* stream used directly, and the last call made on them
orsVars == <<ors, under, direct, last>>
\* the steps the run has executed and the errors they produced
history == <<steps, failed>>
logicVars == <<flags, update, pc, err, locals, ofLocals, fs, defers, readers,
               calls, mbrLocals, nodes, history>>
vars == <<logicVars, orsVars>>

(* ------------------------------ files ---------------------------------- *)
Max(a, b) == IF a >= b THEN a ELSE b
Min(a, b) == IF a <= b THEN a ELSE b

EmptyFile == [size |-> 0, writes |-> << >>]
\* what a target that exists before the run holds
OldFile == [size |-> SectorSize,
            writes |-> << [off |-> 0, len |-> SectorSize, src |-> <<"old">>] >>]

NoStream == [pos |-> 0, size |-> 0]
NoORS == [offset |-> 0]
NoCall == [op |-> "none", whence |-> "", offset |-> 0, before |-> 0, k |-> 0,
           ret |-> 0, err |-> Nil, data |-> << >>, ddata |-> << >>,
           after |-> "", prev |-> 0]

Exists(path) == path \in DOMAIN fs

\* os.Create: the file exists afterwards and is empty
FsCreate(fsys, path) ==
  [p \in DOMAIN fsys \cup {path} |-> IF p = path THEN EmptyFile ELSE fsys[p]]

FsPut(fsys, path, file) ==
  [p \in DOMAIN fsys \cup {path} |-> IF p = path THEN file ELSE fsys[p]]

\* os.Remove / os.RemoveAll of a set of paths
FsRemove(fsys, paths) == [p \in DOMAIN fsys \ paths |-> fsys[p]]

FileTruncate(file, n) == [file EXCEPT !.size = n]

\* one Write of len bytes at position pos
FileWrite(file, pos, len, src) ==
  [size |-> Max(file.size, pos + len),
   writes |-> Append(file.writes, [off |-> pos, len |-> len, src |-> src])]

RECURSIVE SumLen(_, _)
SumLen(writes, src) ==
  IF writes = << >> THEN 0
  ELSE (IF Head(writes).src = src THEN Head(writes).len ELSE 0)
       + SumLen(Tail(writes), src)

\* the bytes of the file that came from src
BytesOf(file, src) == SumLen(file.writes, src)

SeqToSet(s) == {s[i] : i \in DOMAIN s}

(* --------------------------- countingWriter ---------------------------- *)
\* a counter of Write calls instead of bytes
CountingWriterWriteCalls(cw, len) == cw + 1

CountingWriterWrite(cw, len) == cw + len

\* a sequence of Write calls through io.MultiWriter(file, &cw): the file is
\* written first; when its Write fails the counter is not reached and the
\* error is returned.  failAt = k makes the k-th Write fail (0: none).
RECURSIVE WriteAll(_, _, _, _, _, _)
WriteAll(file, pos, cw, chunks, failAt, src) ==
  IF chunks = << >> THEN [file |-> file, pos |-> pos, cw |-> cw, err |-> Nil]
  ELSE IF failAt = 1 THEN [file |-> file, pos |-> pos, cw |-> cw, err |-> "write"]
  ELSE WriteAll(FileWrite(file, pos, Head(chunks), src), pos + Head(chunks),
                CountingWriterWrite(cw, Head(chunks)), Tail(chunks),
                failAt - 1, src)

(* ----------------------------- partitionPath --------------------------- *)
HasPrefix(base, prefix) == Len(base) > 0 /\ base[1] = prefix

partitionPath(base, num) ==
  IF HasPrefix(base, "/dev/mmcblk") THEN base \o <<"p", num>>
  ELSE IF HasPrefix(base, "/dev/disk") \/ HasPrefix(base, "/dev/rdisk")
       THEN base \o <<"s", num>>
  ELSE base \o <<num>>

\* *overwrite + "1" (packer.go:461, 466)
PlainSuffix(base, num) == base \o <<num>>

(* ------------------------------- writeMBR ------------------------------ *)
\* uint32(x): x mod 2^32.  Every offset of the model lies in 0 .. 2^31 - 1,
\* where the conversion keeps the value; a negative value has no uint32
\* image in that range and is left out of the inputs.
ToUint32(x) == IF x >= 0 THEN x ELSE x + 2147483647 + 1

\* the sector inside the boot region, not on the medium
vmlinuzLbaNoBase(offset) == ToUint32(offset \div 512)

vmlinuzLba(offset) == ToUint32((offset \div 512) + 8192)
cmdlineTxtLba(offset) == ToUint32((offset \div 512) + 8192)

\* a writeMBR that writes the boot sector although an extent lookup failed
writeMBRDespiteLookup(file, readerOk, vm, cl, seekOk, writeOk) ==
  LET out(e, v, c, fl) == [file |-> fl, err |-> e, vmlinuzOffset |-> v,
                           cmdlineOffset |-> c]
      sector == FileWrite(file, 0, MBRLen,
                          <<"mbr", vmlinuzLba(Max(vm, 0)),
                            cmdlineTxtLba(Max(cl, 0))>>)
  IN IF ~readerOk THEN out("fat.NewReader", vmlinuzOffset, cmdlineOffset, file)
     ELSE IF vm = ExtentError THEN out("extents /vmlinuz", 0, cmdlineOffset, sector)
     ELSE IF cl = ExtentError THEN out("extents /cmdline.txt", vm, 0, sector)
     ELSE IF ~seekOk THEN out("seek", vm, cl, file)
     ELSE IF ~writeOk THEN out("write", vm, cl, file)
     ELSE out(Nil, vm, cl, sector)

\* writeMBR(f): readerOk is fat.NewReader's outcome, vm and cl the offsets
\* returned by rd.Extents (ExtentError: the lookup failed), seekOk and writeOk
\* the outcomes of f.Seek(0, io.SeekStart) and f.Write(mbr[:]).
writeMBR(file, readerOk, vm, cl, seekOk, writeOk) ==
  LET out(e, v, c, fl) == [file |-> fl, err |-> e, vmlinuzOffset |-> v,
                           cmdlineOffset |-> c]
  IN IF ~readerOk THEN out("fat.NewReader", vmlinuzOffset, cmdlineOffset, file)
     ELSE IF vm = ExtentError THEN out("extents /vmlinuz", 0, cmdlineOffset, file)
     ELSE IF cl = ExtentError THEN out("extents /cmdline.txt", vm, 0, file)
     ELSE IF ~seekOk THEN out("seek", vm, cl, file)
     ELSE IF ~writeOk THEN out("write", vm, cl, file)
     ELSE out(Nil, vm, cl,
              FileWrite(file, 0, MBRLen,
                        <<"mbr", vmlinuzLba(vm), cmdlineTxtLba(cl)>>))

\* writeBootFile / writeRootFile: os.Create, the writes, f.Close
writeImageFile(fsys, filename, src, createOk, chunks, failAt, closeOk) ==
  IF ~createOk THEN [fs |-> fsys, err |-> "create"]
  ELSE LET res == WriteAll(EmptyFile, 0, 0, chunks, failAt, src)
           after == FsPut(fsys, filename, res.file)
       IN IF res.err # Nil THEN [fs |-> after, err |-> res.err]
          ELSE IF ~closeOk THEN [fs |-> after, err |-> "close"]
          ELSE [fs |-> after, err |-> Nil]

writeBootFile(fsys, filename, createOk, chunks, failAt, closeOk) ==
  writeImageFile(fsys, filename, <<"boot">>, createOk, chunks, failAt, closeOk)

writeRootFile(fsys, filename, createOk, chunks, failAt, closeOk) ==
  writeImageFile(fsys, filename, <<"root">>, createOk, chunks, failAt, closeOk)

\* writeMBRFile: os.OpenFile(O_RDWR), writeMBR, f.Close
writeMBRFile(fsys, filename, openOk, readerOk, vm, cl, seekOk, writeOk, closeOk) ==
  IF ~openOk \/ filename \notin DOMAIN fsys
  THEN [fs |-> fsys, err |-> "open", vmlinuzOffset |-> vmlinuzOffset,
        cmdlineOffset |-> cmdlineOffset]
  ELSE LET res == writeMBR(fsys[filename], readerOk, vm, cl, seekOk, writeOk)
           e == IF res.err # Nil THEN res.err
                ELSE IF ~closeOk THEN "close" ELSE Nil
       IN [fs |-> FsPut(fsys, filename, res.file), err |-> e,
           vmlinuzOffset |-> res.vmlinuzOffset,
           cmdlineOffset |-> res.cmdlineOffset]

\* the chunks io.Copy hands to Write for n bytes of input
RECURSIVE CopyChunks(_)
CopyChunks(n) ==
  IF n <= 0 THEN << >> ELSE <<Min(n, CopyBuf)>> \o CopyChunks(n - Min(n, CopyBuf))

(* --------------------------- size validation --------------------------- *)
\* packer.go:391-399
SizeError(size) ==
  IF size = 0 THEN "-target_storage_bytes is required"
  ELSE IF size % SectorSize # 0 THEN "-target_storage_bytes must be a multiple of 512"
  ELSE IF size < Lower THEN "-target_storage_bytes must be at least"
  ELSE Nil

(* ------------------------------- defers -------------------------------- *)
\* a return that skips the deferred removals
RunDefersSkipped(fsys, ds) == fsys

\* the deferred os.Remove / os.RemoveAll calls of a returning function
RunDefers(fsys, ds) == FsRemove(fsys, SeqToSet(ds))

\* an error produced at the current step: returned to the caller, or the
\* result of a deferred call, which has no receiver
Failure(e, d) == [step |-> pc, err |-> e, deferred |-> d]

\* the current step is executed; e is what it returned and dropped are the
\* results of the deferred calls that ran with it
Logged(e, dropped) ==
  /\ steps' = Append(steps, pc)
  /\ failed' = (IF e = Nil THEN failed ELSE Append(failed, Failure(e, FALSE)))
                \o dropped

\* logic returns e: its deferred removals run, main logs a non-nil error
ReturnDropping(e, fsys, dropped) ==
  /\ pc' = "done"
  /\ err' = e
  /\ fs' = RunDefers(fsys, defers)
  /\ defers' = << >>
  /\ Logged(e, dropped)

Return(e, fsys) == ReturnDropping(e, fsys, << >>)

\* the step returned nil and the run goes on at p
StepDropping(p, dropped) ==
  /\ pc' = p
  /\ err' = err
  /\ defers' = defers
  /\ Logged(Nil, dropped)

Step(p) == StepDropping(p, << >>)

(* -------------------------------- Init --------------------------------- *)
\* The flags after flag.Parse and the file system the run starts in.
\* -target_storage_bytes is read only when -overwrite names a file, so it
\* is varied there and left at its default elsewhere.
Init ==
  /\ overwrite \in {NoPath, ImagePath} \cup DevicePaths
  /\ overwriteStat \in (IF overwrite = NoPath THEN {"absent"}
                        ELSE IF overwrite \in DevicePaths THEN {"dev"}
                        ELSE {"reg", "absent", "err"})
  /\ overwriteBoot \in {NoPath, BootImagePath}
  /\ overwriteRoot \in {NoPath, RootImagePath}
  /\ overwriteInit \in {NoPath, InitPath}
  /\ initPkg \in {"", "example.com/init"}
  /\ update \in UpdateValues
  /\ targetStorageBytes \in (IF overwrite = ImagePath THEN TargetSizes ELSE {0})
  /\ pc = "main"
  /\ err = Nil
  /\ isDev = FALSE
  /\ bootSize = 0
  /\ rootSize = 0
  /\ tmpBoot = NoFile
  /\ tmpRoot = NoFile
  /\ f = NoFile
  /\ tmp = NoFile
  /\ bs = 0
  /\ rs = 0
  /\ fs = IF overwriteStat \in {"dev", "reg"}
          THEN [p \in {overwrite} |-> OldFile]
          ELSE [p \in {} |-> OldFile]
  /\ defers = << >>
  /\ ofDefers = << >>
  /\ rootReader = NilReader
  /\ bootReader = NilReader
  /\ calls = << >>
  /\ vmlinuzOffset = 0
  /\ cmdlineOffset = 0
  /\ nodes = (IF overwriteStat = "dev" THEN {overwrite} ELSE {})
  /\ steps = << >>
  /\ failed = << >>
  /\ ors = NoORS
  /\ under = NoStream
  /\ direct = NoStream
  /\ last = NoCall

(* -------------------------------- main --------------------------------- *)
\* packer.go:560-577
Main ==
  /\ pc = "main"
  /\ IF overwrite = NoPath /\ overwriteBoot = NoPath /\ overwriteRoot = NoPath
        /\ overwriteInit = NoPath /\ update = ""
     THEN pc' = "done" /\ err' = "usage" /\ defers' = defers
          /\ Logged(Nil, << >>)
     ELSE Step("prepare")
  /\ UNCHANGED <<orsVars, nodes, mbrLocals, flags, update, locals, ofLocals, fs, readers, calls>>

\* packer.go:292-306: findCACerts, install, findBins
Prepare ==
  /\ pc = "prepare"
  /\ \E e \in {Nil, "findCACerts", "install", "findBins"} :
       IF e = Nil THEN Step("init") /\ fs' = fs ELSE Return(e, fs)
  /\ UNCHANGED <<orsVars, nodes, mbrLocals, flags, update, locals, ofLocals, readers, calls>>

\* a run that dumps the init source and goes on
InitStepDumpContinues ==
  /\ pc = "init"
  /\ IF initPkg = "" /\ overwriteInit # NoPath
     THEN Step("password") /\ fs' = FsCreate(fs, overwriteInit)
     ELSE Step("password") /\ fs' = fs
  /\ UNCHANGED <<orsVars, nodes, mbrLocals, flags, update, locals, ofLocals, readers, calls>>

\* packer.go:308-324: dump the generated init source and stop, or build it
InitStep ==
  /\ pc = "init"
  /\ IF initPkg = ""
     THEN IF overwriteInit # NoPath
          THEN \E ok \in BOOLEAN :
                 IF ok THEN Return(Nil, FsCreate(fs, overwriteInit))
                 ELSE Return("dumpInit", fs)
          ELSE \E ok \in BOOLEAN :
                 IF ok
                 THEN /\ pc' = "password"
                      /\ err' = err
                      /\ Logged(Nil, << >>)
                      /\ fs' = FsCreate(fs, TmpDirPath)
                      /\ defers' = Append(defers, TmpDirPath)
                 ELSE Return("buildInit", fs)
     ELSE Step("password") /\ fs' = fs
  /\ UNCHANGED <<orsVars, nodes, mbrLocals, flags, update, locals, ofLocals, readers, calls>>

\* packer.go:326-329
EnsurePassword ==
  /\ pc = "password"
  /\ \E ok \in BOOLEAN :
       IF ok THEN Step("target") /\ fs' = fs
       ELSE Return("ensurePasswordFileExists", fs)
  /\ UNCHANGED <<orsVars, nodes, mbrLocals, flags, update, locals, ofLocals, readers, calls>>

\* packer.go:382: isDev := ... declares a new variable in the case clause;
\* the isDev declared at line 371 keeps its value
OuterIsDev(outer, inner) == outer

\* packer.go:375-399, 410: where the images go
SelectTarget ==
  /\ pc = "target"
  /\ IF overwrite # NoPath
     THEN IF overwriteStat = "err"
          THEN Return("lstat", fs) /\ isDev' = isDev
          ELSE LET inner == overwriteStat = "dev" IN
               /\ isDev' = OuterIsDev(isDev, inner)
               /\ IF inner
                  THEN Step("partition") /\ fs' = fs
                  ELSE IF SizeError(targetStorageBytes) # Nil
                       THEN Return(SizeError(targetStorageBytes), fs)
                       ELSE Step("of.Create") /\ fs' = fs
     ELSE Step("default.boot") /\ fs' = fs /\ isDev' = isDev
  /\ UNCHANGED <<orsVars, nodes, mbrLocals, flags, update, bootSize, rootSize, tmpBoot, tmpRoot,
                 ofLocals, readers, calls>>

(* --------------------------- overwriteDevice --------------------------- *)
\* packer.go:145-147: partition(*overwrite) creates the two partitions
Partition ==
  /\ pc = "partition"
  /\ \E ok \in BOOLEAN :
       IF ok THEN Step("sleep") /\ fs' = fs ELSE Return("partition", fs)
  /\ UNCHANGED <<orsVars, nodes, mbrLocals, flags, update, locals, ofLocals, readers, calls>>

\* packer.go:149-152: the kernel creates the nodes of the new partitions
\* some time after partition() returned; the run does not take part in it.
\* A path that already names a regular file gets no node.
PartitionNodesAppear ==
  /\ pc \in {"sleep", "dev.writeBoot", "dev.writeMBR", "dev.writeRoot"}
  /\ LET new == {partitionPath(overwrite, "1"), partitionPath(overwrite, "2")}
                \ (nodes \cup DOMAIN fs)
     IN /\ new # {}
        /\ nodes' = nodes \cup new
  /\ UNCHANGED <<orsVars, mbrLocals, flags, update, pc, err, locals, ofLocals,
                 fs, defers, readers, calls, history>>

\* a device variant that goes from the wait straight to the boot sector
SleepThenMBR ==
  /\ pc = "sleep"
  /\ Step("dev.writeMBR")
  /\ UNCHANGED <<orsVars, nodes, mbrLocals, flags, update, locals, ofLocals, fs, readers, calls>>

\* packer.go:151-152: time.Sleep(1 * time.Second)
Sleep ==
  /\ pc = "sleep"
  /\ Step("dev.writeBoot")
  /\ UNCHANGED <<orsVars, nodes, mbrLocals, flags, update, locals, ofLocals, fs, readers, calls>>

\* packer.go:154-156
DevWriteBoot ==
  /\ pc = "dev.writeBoot"
  /\ \E createOk, closeOk \in BOOLEAN, chunks \in BootChunkSeqs :
     \E failAt \in 0..Len(chunks) :
       LET res == writeBootFile(fs, partitionPath(overwrite, "1"),
                                createOk, chunks, failAt, closeOk)
       IN IF res.err = Nil THEN Step("dev.writeMBR") /\ fs' = res.fs
          ELSE Return(res.err, res.fs)
  /\ UNCHANGED <<orsVars, nodes, mbrLocals, flags, update, locals, ofLocals, readers, calls>>

\* packer.go:158-160
DevWriteMBR ==
  /\ pc = "dev.writeMBR"
  /\ \E fail \in 0..4, vm, cl \in ExtentOffsets \cup {ExtentError} :
       LET res == writeMBRFile(fs, overwrite, fail # 1, fail # 2, vm, cl,
                               fail # 3, fail # 4, TRUE)
       IN /\ vmlinuzOffset' = res.vmlinuzOffset
          /\ cmdlineOffset' = res.cmdlineOffset
          /\ IF res.err = Nil THEN Step("dev.writeRoot") /\ fs' = res.fs
             ELSE Return(res.err, res.fs)
  /\ UNCHANGED <<orsVars, nodes, flags, update, locals, ofLocals, readers, calls>>

\* packer.go:136-138: f.Close() of writeMBRFile fails after a written MBR
DevCloseMBRFails ==
  /\ pc = "dev.writeMBR"
  /\ \E vm, cl \in ExtentOffsets :
       LET res == writeMBRFile(fs, overwrite, TRUE, TRUE, vm, cl,
                               TRUE, TRUE, FALSE)
       IN /\ vmlinuzOffset' = res.vmlinuzOffset
          /\ cmdlineOffset' = res.cmdlineOffset
          /\ Return(res.err, res.fs)
  /\ UNCHANGED <<orsVars, nodes, flags, update, locals, ofLocals, readers, calls>>

\* packer.go:162-171
DevWriteRoot ==
  /\ pc = "dev.writeRoot"
  /\ \E createOk, closeOk \in BOOLEAN, chunks \in RootChunkSeqs :
     \E failAt \in 0..Len(chunks) :
       LET res == writeRootFile(fs, partitionPath(overwrite, "2"),
                                createOk, chunks, failAt, closeOk)
       IN IF res.err = Nil THEN Step("print") /\ fs' = res.fs
          ELSE Return(res.err, res.fs)
  /\ UNCHANGED <<orsVars, nodes, mbrLocals, flags, update, locals, ofLocals, readers, calls>>

(* ---------------------------- overwriteFile ---------------------------- *)
\* packer.go:229  f.Seek(8192*512, io.SeekStart)
bootSeekOffset == 8192 * 512
\* the root region placed right behind the boot bytes written
rootSeekAfterBoot == 8192 * 512 + bs

\* packer.go:241  f.Seek(8192*512+100*MB, io.SeekStart)
rootSeekOffset == 8192 * 512 + 100 * MB

\* overwriteFile returns (b, r, e): its deferred removal runs, logic assigns
\* bootSize and rootSize (packer.go:401) and returns e when it is an error
\* packer.go:250: defer tmp.Close() runs as overwriteFile returns, once the
\* transient file is open; its result has no receiver
TmpCloseDropped(ok) == IF ok THEN << >> ELSE << Failure("close tmp", TRUE) >>

\* a caller that goes on whatever overwriteFile returned
OFReturnIgnoresError(b, r, e, fsys) ==
  /\ bootSize' = b
  /\ rootSize' = r
  /\ ofDefers' = << >>
  /\ pc' = "print"
  /\ err' = err
  /\ defers' = defers
  /\ Logged(e, << >>)
  /\ fs' = RunDefers(fsys, ofDefers)

OFReturn(b, r, e, fsys) ==
  /\ bootSize' = b
  /\ rootSize' = r
  /\ ofDefers' = << >>
  /\ \E closeOk \in (IF ofDefers = << >> THEN {TRUE} ELSE BOOLEAN) :
       IF e # Nil
       THEN ReturnDropping(e, RunDefers(fsys, ofDefers),
                           TmpCloseDropped(closeOk))
       ELSE /\ StepDropping("print", TmpCloseDropped(closeOk))
            /\ fs' = RunDefers(fsys, ofDefers)

\* packer.go:216-219
OFCreate ==
  /\ pc = "of.Create"
  /\ \E ok \in BOOLEAN :
       IF ok
       THEN /\ Step("of.Truncate")
            /\ fs' = FsCreate(fs, overwrite)
            /\ f' = [path |-> overwrite, pos |-> 0]
            /\ UNCHANGED <<bootSize, rootSize, ofDefers>>
       ELSE OFReturn(0, 0, "create", fs) /\ f' = f
  /\ UNCHANGED <<orsVars, nodes, mbrLocals, flags, update, isDev, tmpBoot, tmpRoot, tmp, bs, rs,
                 readers, calls>>

\* packer.go:221-223
OFTruncate ==
  /\ pc = "of.Truncate"
  /\ \E ok \in BOOLEAN :
       IF ok
       THEN /\ Step("of.writePartitionTable")
            /\ fs' = FsPut(fs, f.path, FileTruncate(fs[f.path], targetStorageBytes))
            /\ UNCHANGED <<bootSize, rootSize, ofDefers>>
       ELSE OFReturn(0, 0, "truncate", fs)
  /\ UNCHANGED <<orsVars, nodes, mbrLocals, flags, update, isDev, tmpBoot, tmpRoot, f, tmp, bs, rs,
                 readers, calls>>

\* packer.go:225-227: the partition table is written at the file's position
OFPartitionTable ==
  /\ pc = "of.writePartitionTable"
  /\ \E ok \in BOOLEAN :
       IF ok
       THEN /\ Step("of.SeekBoot")
            /\ fs' = FsPut(fs, f.path,
                           FileWrite(fs[f.path], f.pos, SectorSize, <<"ptable">>))
            /\ f' = [f EXCEPT !.pos = f.pos + SectorSize]
            /\ UNCHANGED <<bootSize, rootSize, ofDefers>>
       ELSE OFReturn(0, 0, "writePartitionTable", fs) /\ f' = f
  /\ UNCHANGED <<orsVars, nodes, mbrLocals, flags, update, isDev, tmpBoot, tmpRoot, tmp, bs, rs,
                 readers, calls>>

\* packer.go:229-231
OFSeekBoot ==
  /\ pc = "of.SeekBoot"
  /\ \E ok \in BOOLEAN :
       IF ok
       THEN /\ Step("of.writeBoot")
            /\ fs' = fs
            /\ f' = [f EXCEPT !.pos = bootSeekOffset]
            /\ UNCHANGED <<bootSize, rootSize, ofDefers>>
       ELSE OFReturn(0, 0, "seek", fs) /\ f' = f
  /\ UNCHANGED <<orsVars, nodes, mbrLocals, flags, update, isDev, tmpBoot, tmpRoot, tmp, bs, rs,
                 readers, calls>>

\* packer.go:232-235: writeBoot(io.MultiWriter(f, &bs))
OFWriteBoot ==
  /\ pc = "of.writeBoot"
  /\ \E chunks \in BootChunkSeqs : \E failAt \in 0..Len(chunks) :
       LET res == WriteAll(fs[f.path], f.pos, 0, chunks, failAt, <<"boot">>)
       IN /\ bs' = res.cw
          /\ f' = [f EXCEPT !.pos = res.pos]
          /\ IF res.err = Nil
             THEN /\ Step("of.writeMBR")
                  /\ fs' = FsPut(fs, f.path, res.file)
                  /\ UNCHANGED <<bootSize, rootSize, ofDefers>>
             ELSE OFReturn(0, 0, res.err, FsPut(fs, f.path, res.file))
  /\ UNCHANGED <<orsVars, nodes, mbrLocals, flags, update, isDev, tmpBoot, tmpRoot, tmp, rs,
                 readers, calls>>

\* packer.go:237-239
OFWriteMBR ==
  /\ pc = "of.writeMBR"
  /\ \E fail \in 0..4, vm, cl \in ExtentOffsets \cup {ExtentError} :
       LET res == writeMBR(fs[f.path], fail # 1, vm, cl, fail # 3, fail # 4)
       IN /\ vmlinuzOffset' = res.vmlinuzOffset
          /\ cmdlineOffset' = res.cmdlineOffset
          /\ IF res.err = Nil
             THEN /\ Step("of.SeekRoot")
                  /\ fs' = FsPut(fs, f.path, res.file)
                  /\ f' = [f EXCEPT !.pos = MBRLen]
                  /\ UNCHANGED <<bootSize, rootSize, ofDefers>>
             ELSE OFReturn(0, 0, res.err, fs) /\ f' = f
  /\ UNCHANGED <<orsVars, nodes, flags, update, isDev, tmpBoot, tmpRoot, tmp, bs, rs,
                 readers, calls>>

\* packer.go:241-243
OFSeekRoot ==
  /\ pc = "of.SeekRoot"
  /\ \E ok \in BOOLEAN :
       IF ok
       THEN /\ Step("of.TempFile")
            /\ fs' = fs
            /\ f' = [f EXCEPT !.pos = rootSeekOffset]
            /\ UNCHANGED <<bootSize, rootSize, ofDefers>>
       ELSE OFReturn(0, 0, "seek", fs) /\ f' = f
  /\ UNCHANGED <<orsVars, nodes, mbrLocals, flags, update, isDev, tmpBoot, tmpRoot, tmp, bs, rs,
                 readers, calls>>

\* packer.go:245-250: ioutil.TempFile, defer os.Remove(tmp.Name())
OFTempFile ==
  /\ pc = "of.TempFile"
  /\ \E ok \in BOOLEAN :
       IF ok
       THEN /\ Step("of.writeRoot")
            /\ fs' = FsCreate(fs, TmpOFPath)
            /\ tmp' = [path |-> TmpOFPath, pos |-> 0]
            /\ ofDefers' = Append(ofDefers, TmpOFPath)
            /\ UNCHANGED <<bootSize, rootSize>>
       ELSE OFReturn(0, 0, "TempFile", fs) /\ tmp' = tmp
  /\ UNCHANGED <<orsVars, nodes, mbrLocals, flags, update, isDev, tmpBoot, tmpRoot, f, bs, rs,
                 readers, calls>>

\* packer.go:252-254: writeRoot(tmp, root)
OFWriteRoot ==
  /\ pc = "of.writeRoot"
  /\ \E chunks \in RootChunkSeqs : \E failAt \in 0..Len(chunks) :
       LET res == WriteAll(fs[tmp.path], tmp.pos, 0, chunks, failAt, <<"root">>)
       IN /\ tmp' = [tmp EXCEPT !.pos = res.pos]
          /\ IF res.err = Nil
             THEN /\ Step("of.tmpSeek")
                  /\ fs' = FsPut(fs, tmp.path, res.file)
                  /\ UNCHANGED <<bootSize, rootSize, ofDefers>>
             ELSE OFReturn(0, 0, res.err, FsPut(fs, tmp.path, res.file))
  /\ UNCHANGED <<orsVars, nodes, mbrLocals, flags, update, isDev, tmpBoot, tmpRoot, f, bs, rs,
                 readers, calls>>

\* packer.go:255-257
OFTmpSeek ==
  /\ pc = "of.tmpSeek"
  /\ \E ok \in BOOLEAN :
       IF ok
       THEN /\ Step("of.Copy")
            /\ fs' = fs
            /\ tmp' = [tmp EXCEPT !.pos = 0]
            /\ UNCHANGED <<bootSize, rootSize, ofDefers>>
       ELSE OFReturn(0, 0, "seek", fs) /\ tmp' = tmp
  /\ UNCHANGED <<orsVars, nodes, mbrLocals, flags, update, isDev, tmpBoot, tmpRoot, f, bs, rs,
                 readers, calls>>

\* packer.go:259-262: io.Copy(io.MultiWriter(f, &rs), tmp) reads tmp from its
\* position to the end and writes what it read
OFCopy ==
  /\ pc = "of.Copy"
  /\ LET chunks == CopyChunks(fs[tmp.path].size - tmp.pos) IN
     \E failAt \in 0..Len(chunks) :
       LET res == WriteAll(fs[f.path], f.pos, 0, chunks, failAt, <<"root">>)
       IN /\ rs' = res.cw
          /\ f' = [f EXCEPT !.pos = res.pos]
          /\ tmp' = [tmp EXCEPT !.pos = tmp.pos + res.cw]
          /\ IF res.err = Nil
             THEN /\ Step("of.Close")
                  /\ fs' = FsPut(fs, f.path, res.file)
                  /\ UNCHANGED <<bootSize, rootSize, ofDefers>>
             ELSE OFReturn(0, 0, res.err, FsPut(fs, f.path, res.file))
  /\ UNCHANGED <<orsVars, nodes, mbrLocals, flags, update, isDev, tmpBoot, tmpRoot, bs, readers, calls>>

\* packer.go:264, 401-407: return int64(bs), int64(rs), f.Close()
OFClose ==
  /\ pc = "of.Close"
  /\ \E ok \in BOOLEAN :
       OFReturn(bs, rs, IF ok THEN Nil ELSE "close", fs)
  /\ UNCHANGED <<orsVars, nodes, mbrLocals, flags, update, isDev, tmpBoot, tmpRoot, f, tmp, bs, rs,
                 readers, calls>>

(* ------------------------- separate image files ------------------------ *)
\* packer.go:411-415
DefaultBoot ==
  /\ pc = "default.boot"
  /\ IF overwriteBoot # NoPath
     THEN \E createOk, closeOk \in BOOLEAN, chunks \in BootChunkSeqs :
          \E failAt \in 0..Len(chunks) :
            LET res == writeBootFile(fs, overwriteBoot, createOk, chunks,
                                     failAt, closeOk)
            IN IF res.err = Nil THEN Step("default.root") /\ fs' = res.fs
               ELSE Return(res.err, res.fs)
     ELSE Step("default.root") /\ fs' = fs
  /\ UNCHANGED <<orsVars, nodes, mbrLocals, flags, update, locals, ofLocals, readers, calls>>

\* packer.go:417-421
DefaultRoot ==
  /\ pc = "default.root"
  /\ IF overwriteRoot # NoPath
     THEN \E createOk, closeOk \in BOOLEAN, chunks \in RootChunkSeqs :
          \E failAt \in 0..Len(chunks) :
            LET res == writeRootFile(fs, overwriteRoot, createOk, chunks,
                                     failAt, closeOk)
            IN IF res.err = Nil THEN Step("default.tmpBoot") /\ fs' = res.fs
               ELSE Return(res.err, res.fs)
     ELSE Step("default.tmpBoot") /\ fs' = fs
  /\ UNCHANGED <<orsVars, nodes, mbrLocals, flags, update, locals, ofLocals, readers, calls>>

\* packer.go:423-432: the temporary boot image, removed when logic returns
DefaultTmpBoot ==
  /\ pc = "default.tmpBoot"
  /\ IF overwriteBoot = NoPath /\ overwriteRoot = NoPath
     THEN \E createOk \in BOOLEAN, chunks \in BootChunkSeqs :
          \E failAt \in 0..Len(chunks) :
            IF ~createOk
            THEN Return("TempFile", fs) /\ tmpBoot' = tmpBoot
            ELSE LET res == WriteAll(EmptyFile, 0, 0, chunks, failAt, <<"boot">>)
                     after == FsPut(fs, TmpBootPath, res.file)
                 IN /\ tmpBoot' = [path |-> TmpBootPath, pos |-> res.pos]
                    /\ IF res.err = Nil
                       THEN /\ pc' = "default.tmpRoot"
                            /\ err' = err
                            /\ Logged(Nil, << >>)
                            /\ fs' = after
                            /\ defers' = Append(defers, TmpBootPath)
                       ELSE /\ pc' = "done"
                            /\ err' = res.err
                            /\ Logged(res.err, << >>)
                            /\ fs' = RunDefers(after, Append(defers, TmpBootPath))
                            /\ defers' = << >>
     ELSE Step("print") /\ fs' = fs /\ tmpBoot' = tmpBoot
  /\ UNCHANGED <<orsVars, nodes, mbrLocals, flags, update, isDev, bootSize, rootSize, tmpRoot, ofLocals,
                 readers, calls>>

\* packer.go:434-442: the temporary root image, removed when logic returns
DefaultTmpRoot ==
  /\ pc = "default.tmpRoot"
  /\ \E createOk \in BOOLEAN, chunks \in RootChunkSeqs :
     \E failAt \in 0..Len(chunks) :
       IF ~createOk
       THEN Return("TempFile", fs) /\ tmpRoot' = tmpRoot
       ELSE LET res == WriteAll(EmptyFile, 0, 0, chunks, failAt, <<"root">>)
                after == FsPut(fs, TmpRootPath, res.file)
            IN /\ tmpRoot' = [path |-> TmpRootPath, pos |-> res.pos]
               /\ IF res.err = Nil
                  THEN /\ pc' = "print"
                       /\ err' = err
                       /\ Logged(Nil, << >>)
                       /\ fs' = after
                       /\ defers' = Append(defers, TmpRootPath)
                  ELSE /\ pc' = "done"
                       /\ err' = res.err
                       /\ Logged(res.err, << >>)
                       /\ fs' = RunDefers(after, Append(defers, TmpRootPath))
                       /\ defers' = << >>
  /\ UNCHANGED <<orsVars, nodes, mbrLocals, flags, update, isDev, bootSize, rootSize, tmpBoot, ofLocals,
                 readers, calls>>

(* ------------------------------- update -------------------------------- *)
\* a run that goes on to the update phase whatever -update holds
CheckUpdateIgnoresEmpty ==
  /\ pc = "print"
  /\ Step("readers")
  /\ fs' = fs
  /\ UNCHANGED <<orsVars, nodes, mbrLocals, flags, update, locals, ofLocals, readers, calls>>

\* packer.go:446-454: without -update the run ends here
CheckUpdate ==
  /\ pc = "print"
  /\ IF update = "" THEN Return(Nil, fs) ELSE Step("readers") /\ fs' = fs
  /\ UNCHANGED <<orsVars, nodes, mbrLocals, flags, update, locals, ofLocals, readers, calls>>

Reader(path, off, n) == [set |-> TRUE, path |-> path, off |-> off, n |-> n]

\* packer.go:476  bootFile.Seek(8192*512, io.SeekStart)
bootReadOffset == 8192 * 512
\* packer.go:488  rootFile.Seek(8192*512+100*MB, io.SeekStart)
rootReadOffset == 8192 * 512 + 100 * MB
\* packer.go:479-482  bootReader = &io.LimitedReader{R: bootFile, N: rootSize}
bootReaderN == rootSize
\* packer.go:491-494  rootReader = &io.LimitedReader{R: rootFile, N: bootSize}
rootReaderN == bootSize

\* packer.go:457-525: where the images are read from.  failAt = k makes the
\* k-th os.Open or Seek of the branch taken fail (0: none); os.Open also
\* fails when the path does not exist.
SelectReaders(failAt) ==
  LET none == [boot |-> bootReader, root |-> rootReader, err |-> Nil] IN
  IF overwrite # NoPath
  THEN IF isDev
       THEN IF failAt = 1 \/ ~Exists(PlainSuffix(overwrite, "1"))
            THEN [none EXCEPT !.err = "open"]
            ELSE IF failAt = 2 \/ ~Exists(PlainSuffix(overwrite, "2"))
            THEN [none EXCEPT !.err = "open",
                              !.boot = Reader(PlainSuffix(overwrite, "1"), 0, Unlimited)]
            ELSE [boot |-> Reader(PlainSuffix(overwrite, "1"), 0, Unlimited),
                  root |-> Reader(PlainSuffix(overwrite, "2"), 0, Unlimited),
                  err |-> Nil]
       ELSE IF failAt = 1 \/ ~Exists(overwrite) THEN [none EXCEPT !.err = "open"]
            ELSE IF failAt = 2 THEN [none EXCEPT !.err = "seek"]
            ELSE IF failAt = 3
            THEN [none EXCEPT !.err = "open",
                              !.boot = Reader(overwrite, bootReadOffset, bootReaderN)]
            ELSE IF failAt = 4
            THEN [none EXCEPT !.err = "seek",
                              !.boot = Reader(overwrite, bootReadOffset, bootReaderN)]
            ELSE [boot |-> Reader(overwrite, bootReadOffset, bootReaderN),
                  root |-> Reader(overwrite, rootReadOffset, rootReaderN),
                  err |-> Nil]
  ELSE LET b == IF overwriteBoot # NoPath
                THEN IF failAt = 1 \/ ~Exists(overwriteBoot)
                     THEN [none EXCEPT !.err = "open"]
                     ELSE [none EXCEPT !.boot = Reader(overwriteBoot, 0, Unlimited)]
                ELSE none
           r == IF b.err = Nil /\ overwriteRoot # NoPath
                THEN IF failAt = 2 \/ ~Exists(overwriteRoot)
                     THEN [b EXCEPT !.err = "open"]
                     ELSE [b EXCEPT !.root = Reader(overwriteRoot, 0, Unlimited)]
                ELSE b
       IN IF r.err = Nil /\ overwriteBoot = NoPath /\ overwriteRoot = NoPath
          THEN IF failAt = 3 THEN [r EXCEPT !.err = "seek"]
               ELSE IF failAt = 4
               THEN [r EXCEPT !.err = "seek",
                              !.boot = Reader(tmpBoot.path, 0, Unlimited)]
               ELSE [boot |-> Reader(tmpBoot.path, 0, Unlimited),
                     root |-> Reader(tmpRoot.path, 0, Unlimited),
                     err |-> Nil]
          ELSE r

OpenReaders ==
  /\ pc = "readers"
  /\ \E failAt \in 0..4 :
       LET res == SelectReaders(failAt) IN
       /\ bootReader' = res.boot
       /\ rootReader' = res.root
       /\ IF res.err = Nil THEN Step("url") /\ fs' = fs ELSE Return(res.err, fs)
  /\ UNCHANGED <<orsVars, nodes, mbrLocals, flags, update, locals, ofLocals, calls>>

\* packer.go:527-536
ParseURL ==
  /\ pc = "url"
  /\ update' = IF update = "yes" THEN GoodURL ELSE update
  /\ IF update = BadURL THEN Return("url.Parse", fs)
     ELSE Step("UpdateRoot") /\ fs' = fs
  /\ UNCHANGED <<orsVars, nodes, mbrLocals, flags, locals, ofLocals, readers, calls>>

\* an updater call whose failure is noted but does not end the run
RemoteCallContinues(name, next, failure) ==
  /\ pc = name
  /\ calls' = Append(calls, name)
  /\ \E ok \in BOOLEAN :
       /\ pc' = next
       /\ err' = IF ok THEN err ELSE failure
       /\ Logged(IF ok THEN Nil ELSE failure, << >>)
       /\ defers' = defers
       /\ fs' = fs
  /\ UNCHANGED <<orsVars, nodes, mbrLocals, flags, update, locals, ofLocals, readers>>

\* one updater call: it is logged when it is issued, and its failure ends
\* the run with the error of its step
RemoteCall(name, next, failure) ==
  /\ pc = name
  /\ calls' = Append(calls, name)
  /\ \E ok \in BOOLEAN :
       IF ok THEN Step(next) /\ fs' = fs ELSE Return(failure, fs)
  /\ UNCHANGED <<orsVars, nodes, mbrLocals, flags, update, locals, ofLocals, readers>>

\* packer.go:540-542
UpdateRoot == RemoteCall("UpdateRoot", "UpdateBoot", "updating root file system")
\* packer.go:544-546
UpdateBoot == RemoteCall("UpdateBoot", "Switch", "updating boot file system")
\* packer.go:548-550
Switch == RemoteCall("Switch", "Reboot", "switching to non-active partition")
\* packer.go:552-554
Reboot == RemoteCall("Reboot", "return", "reboot")

\* packer.go:556-557
Finish ==
  /\ pc = "return"
  /\ Return(Nil, fs)
  /\ UNCHANGED <<orsVars, nodes, mbrLocals, flags, update, locals, ofLocals, readers, calls>>

Next ==
  \/ Main \/ Prepare \/ InitStep \/ EnsurePassword \/ SelectTarget
  \/ Partition \/ PartitionNodesAppear \/ Sleep \/ DevWriteBoot \/ DevWriteMBR \/ DevCloseMBRFails
  \/ DevWriteRoot
  \/ OFCreate \/ OFTruncate \/ OFPartitionTable \/ OFSeekBoot \/ OFWriteBoot
  \/ OFWriteMBR \/ OFSeekRoot \/ OFTempFile \/ OFWriteRoot \/ OFTmpSeek
  \/ OFCopy \/ OFClose
  \/ DefaultBoot \/ DefaultRoot \/ DefaultTmpBoot \/ DefaultTmpRoot
  \/ CheckUpdate \/ OpenReaders \/ ParseURL
  \/ UpdateRoot \/ UpdateBoot \/ Switch \/ Reboot \/ Finish

Spec == Init /\ [][Next]_vars

(* --------------------------- offsetReadSeeker -------------------------- *)
\* the largest base offset, stream length, seek offset, read length
MaxBase == 3
MaxStream == 4
MaxSeek == 3
MaxRead == 2

Whences == {"SeekStart", "SeekCurrent", "SeekEnd"}

\* the byte a stream holds at position i: every position holds its own
ByteAt(i) == i

\* Seek of the wrapped io.ReadSeeker (an *os.File): the new position is
\* counted from the start, the current position or the end; a negative
\* result is an error and leaves the position alone
FileSeek(st, offset, whence) ==
  LET base == IF whence = "SeekStart" THEN 0
              ELSE IF whence = "SeekCurrent" THEN st.pos ELSE st.size
      np == base + offset
  IN IF np < 0 THEN [st |-> st, ret |-> 0, err |-> "EINVAL"]
     ELSE [st |-> [st EXCEPT !.pos = np], ret |-> np, err |-> Nil]

\* Read of up to n bytes at the stream's position
FileRead(st, n) ==
  LET k == Max(0, Min(n, st.size - st.pos))
  IN [st |-> [st EXCEPT !.pos = st.pos + k],
      data |-> [i \in 1..k |-> ByteAt(st.pos + i - 1)]]

\* an adapter that forwards every Seek untranslated
offsetReadSeekerSeekNoBase(o, st, offset, whence) ==
  [o |-> o] @@ FileSeek(st, offset, whence)

\* an adapter that reports a Seek from the start in window coordinates
offsetReadSeekerSeekRelative(o, st, offset, whence) ==
  IF whence = "SeekStart"
  THEN LET r == FileSeek(st, offset + o.offset, "SeekStart")
       IN [o |-> o, st |-> r.st, err |-> r.err,
           ret |-> IF r.err = Nil THEN r.ret - o.offset ELSE r.ret]
  ELSE [o |-> o] @@ FileSeek(st, offset, whence)

\* packer.go:179-185
offsetReadSeekerSeek(o, st, offset, whence) ==
  IF whence = "SeekStart"
  THEN [o |-> o] @@ FileSeek(st, offset + o.offset, "SeekStart")
  ELSE [o |-> o] @@ FileSeek(st, offset, whence)

LogicIdle ==
  /\ overwrite = NoPath /\ overwriteStat = "absent"
  /\ overwriteBoot = NoPath /\ overwriteRoot = NoPath /\ overwriteInit = NoPath
  /\ initPkg = "" /\ update = "" /\ targetStorageBytes = 0
  /\ pc = "done" /\ err = Nil /\ isDev = FALSE
  /\ bootSize = 0 /\ rootSize = 0 /\ tmpBoot = NoFile /\ tmpRoot = NoFile
  /\ f = NoFile /\ tmp = NoFile /\ bs = 0 /\ rs = 0
  /\ fs = [p \in {} |-> EmptyFile]
  /\ defers = << >> /\ ofDefers = << >>
  /\ rootReader = NilReader /\ bootReader = NilReader /\ calls = << >>
  /\ vmlinuzOffset = 0 /\ cmdlineOffset = 0
  /\ nodes = {} /\ steps = << >> /\ failed = << >>

\* &offsetReadSeeker{f, K} over a stream, and the stream used directly
InitORS ==
  /\ LogicIdle
  /\ ors \in [offset : 0..MaxBase]
  /\ \E size \in 0..MaxStream, pos \in 0..MaxStream :
       /\ under = [pos |-> pos, size |-> size]
       /\ direct = under
  /\ last = NoCall

\* ors.Seek(P, whence), and beside it the Seek the comment at packer.go:181
\* says it stands for, made on the stream itself; when it follows a Seek that
\* succeeded it keeps that Seek's whence (after) and offset (prev)
ORSSeek ==
  /\ \E P \in (0 - MaxSeek)..MaxSeek, w \in Whences :
       LET r == offsetReadSeekerSeek(ors, under, P, w)
           d == FileSeek(direct, IF w = "SeekStart" THEN P + ors.offset ELSE P, w)
       IN /\ r.st.pos <= MaxStream + MaxBase + MaxSeek
          /\ ors' = r.o
          /\ under' = r.st
          /\ direct' = d.st
          /\ last' = [op |-> "seek", whence |-> w, offset |-> P,
                      before |-> under.pos, k |-> ors.offset, ret |-> r.ret,
                      err |-> r.err, data |-> << >>, ddata |-> << >>,
                      after |-> IF last.op = "seek" /\ last.err = Nil
                                THEN last.whence ELSE "",
                      prev |-> IF last.op = "seek" /\ last.err = Nil
                               THEN last.offset ELSE 0]
  /\ UNCHANGED logicVars

\* a Read through the adapter (the embedded ReadSeeker's Read) and on the
\* stream used directly; when it follows a Seek that succeeded it keeps that
\* Seek's whence and offset
ORSRead ==
  /\ \E n \in 1..MaxRead :
       LET r == FileRead(under, n)
           d == FileRead(direct, n)
       IN /\ under' = r.st
          /\ direct' = d.st
          /\ last' = [op |-> "read", whence |-> "", offset |-> last.offset,
                      before |-> under.pos, k |-> ors.offset, ret |-> Len(r.data),
                      err |-> Nil, data |-> r.data, ddata |-> d.data,
                      after |-> IF last.op = "seek" /\ last.err = Nil
                                THEN last.whence ELSE "",
                      prev |-> 0]
  /\ ors' = ors
  /\ UNCHANGED logicVars

NextORS == ORSSeek \/ ORSRead

SpecORS == InitORS /\ [][NextORS]_vars

(* ================================ claims =============================== *)
CallOrder == <<"UpdateRoot", "UpdateBoot", "Switch", "Reboot">>
StepError == <<"updating root file system", "updating boot file system",
               "switching to non-active partition", "reboot">>
IsPrefix(s, t) == Len(s) <= Len(t) /\ \A i \in 1..Len(s) : s[i] = t[i]

\* the positions of logic before the target is chosen
PrePcs == {"main", "prepare", "init", "password", "target"}
\* the positions of logic inside overwriteFile
OFPcs == {"of.Create", "of.Truncate", "of.writePartitionTable", "of.SeekBoot",
          "of.writeBoot", "of.writeMBR", "of.SeekRoot", "of.TempFile",
          "of.writeRoot", "of.tmpSeek", "of.Copy", "of.Close"}
\* the positions of logic after the images were written without an error
PostPcs == {"print", "readers", "url", "UpdateRoot", "UpdateBoot", "Switch",
            "Reboot", "return"}

WritesOf(file, src) == SelectSeq(file.writes, LAMBDA w : w.src = src)
Contiguous(ws) == \A i \in 2..Len(ws) : ws[i].off = ws[i-1].off + ws[i-1].len

\* C1: the remote calls are issued in the order UpdateRoot, UpdateBoot,
\* Switch, Reboot, each at most once; a call is issued only when every
\* earlier call returned success; a failure at step N ends the run with the
\* error of step N and leaves the calls after N unissued.
C1_UpdateOrder ==
  /\ IsPrefix(calls, CallOrder)
  /\ \A k \in 1..4 : pc = CallOrder[k] => (err = Nil /\ Len(calls) = k - 1)
  /\ (pc = "done" /\ calls # << >>) =>
        IF err = Nil THEN calls = CallOrder ELSE err = StepError[Len(calls)]
  /\ (pc # "done") => err = Nil

C1_Witness ==
  /\ pc = "done"
  /\ err = "updating boot file system"
  /\ calls = <<"UpdateRoot", "UpdateBoot">>

\* C2: with the image in a composite file and an update requested, the boot
\* source is the bootSize bytes at file offset 4 MiB and the root source the
\* rootSize bytes at file offset 104 MiB, bootSize and rootSize being the
\* counts overwriteFile returned.
C2_FileWindows ==
  (pc = "UpdateRoot" /\ overwrite = ImagePath) =>
     /\ bootReader = Reader(overwrite, 4 * MB, bootSize)
     /\ rootReader = Reader(overwrite, 104 * MB, rootSize)

\* C3: with a block device as the -overwrite target and an update requested,
\* the boot and root sources are the device's partitions 1 and 2, the ones
\* overwriteDevice wrote, opened directly and read to their end.
C3_DevicePartitions ==
  (pc = "UpdateRoot" /\ overwriteStat = "dev") =>
     /\ bootReader = Reader(partitionPath(overwrite, "1"), 0, Unlimited)
     /\ rootReader = Reader(partitionPath(overwrite, "2"), 0, Unlimited)

\* C4: in file mode every total size below 1100 MiB + 4 MiB is rejected: the
\* run never gets to create the output file with such a size.
C4_MinimumSize ==
  (overwrite = ImagePath /\ targetStorageBytes < 1100 * MB + 4 * MB) =>
     pc \in PrePcs \cup {"done"}

\* C5: in file mode a total size that is zero, no multiple of 512 or below
\* the minimum (1100 MiB + 4 MiB) ends the run with an error before the
\* output file is created, truncated or written and before any remote call.
C5_RejectedBeforeWrite ==
  (overwrite = ImagePath /\ pc \notin PrePcs
     /\ (\/ targetStorageBytes = 0
         \/ targetStorageBytes % 512 # 0
         \/ targetStorageBytes < 1100 * MB + 4 * MB)) =>
     /\ pc = "done"
     /\ err # Nil \/ (initPkg = "" /\ overwriteInit # NoPath)
     /\ IF overwriteStat = "reg" THEN fs[overwrite] = OldFile
        ELSE overwrite \notin DOMAIN fs
     /\ calls = << >>

\* The same with the minimum the program enforces (lower, packer.go:397):
\* the three checks come before overwriteFile is called, so a size they
\* turn down leaves the target as it was.
ValidationPrecedesWrites ==
  (overwrite = ImagePath /\ pc \notin PrePcs /\ SizeError(targetStorageBytes) # Nil) =>
     /\ pc = "done"
     /\ err # Nil \/ (initPkg = "" /\ overwriteInit # NoPath)
     /\ IF overwriteStat = "reg" THEN fs[overwrite] = OldFile
        ELSE overwrite \notin DOMAIN fs
     /\ calls = << >>

\* C6: with the kernel at byte offset B and the command line at byte offset C
\* of the boot region, the boot sector written holds the sectors
\* 8192 + B/512 and 8192 + C/512 and is written at byte 0 of the medium.
C6_BootSector ==
  \A p \in DOMAIN fs : \A i \in DOMAIN fs[p].writes :
     LET w == fs[p].writes[i] IN
     w.src[1] = "mbr" =>
        /\ p = overwrite
        /\ w.off = 0
        /\ w.src = <<"mbr", 8192 + (vmlinuzOffset \div 512),
                     8192 + (cmdlineOffset \div 512)>>

C6_Witness ==
  /\ pc = "of.SeekRoot"
  /\ vmlinuzOffset = 2048
  /\ cmdlineOffset = 4100
  /\ \E i \in DOMAIN fs[overwrite].writes :
       /\ fs[overwrite].writes[i].off = 0
       /\ fs[overwrite].writes[i].src = <<"mbr", 8196, 8200>>

\* C7: after ors.Seek(P, SeekStart) the stream stands at P + K, where a Seek
\* to P + K made on the stream itself puts it, so the next Read returns the
\* same bytes; a Seek from the current position or from the end moves the
\* stream by the offset given, untranslated; no Seek changes K.
C7_SeekTranslation ==
  /\ under = direct
  /\ last.op = "read" => last.data = last.ddata
  /\ last.op = "seek" => ors.offset = last.k
  /\ (last.op = "seek" /\ last.err = Nil) =>
        under.pos = (IF last.whence = "SeekStart" THEN last.offset + last.k
                     ELSE IF last.whence = "SeekCurrent"
                          THEN last.before + last.offset
                     ELSE under.size + last.offset)
  /\ (last.op = "read" /\ last.after = "SeekStart") =>
        /\ last.before = last.offset + last.k
        /\ \A i \in 1..Len(last.data) :
              last.data[i] = ByteAt(last.offset + last.k + i - 1)

C7_Witness ==
  /\ last.op = "read"
  /\ last.after = "SeekStart"
  /\ last.offset = 1
  /\ ors.offset = 2
  /\ last.data = <<3>>

\* C8: when overwriteFile has returned without an error, bootSize is the
\* number of boot image bytes written into the output file (not the 100 MiB
\* reserved for them) and rootSize the number of root image bytes copied
\* into it, which is the length of the root image; each counter has grown
\* by len(p) with every Write.
C8_ByteCounts ==
  overwrite = ImagePath =>
     /\ pc \in (OFPcs \ {"of.Create", "of.Truncate", "of.writePartitionTable",
                         "of.SeekBoot", "of.writeBoot"}) =>
           bs = BytesOf(fs[overwrite], <<"boot">>)
     /\ pc = "of.Close" =>
           /\ rs = BytesOf(fs[overwrite], <<"root">>)
           /\ rs = fs[tmp.path].size
     /\ pc \in PostPcs =>
           /\ bootSize = BytesOf(fs[overwrite], <<"boot">>)
           /\ rootSize = BytesOf(fs[overwrite], <<"root">>)
           /\ bootSize = bs /\ rootSize = rs

C8_Witness ==
  /\ pc = "print"
  /\ overwrite = ImagePath
  /\ bootSize = 1212
  /\ rootSize = 40000
  /\ Len(WritesOf(fs[overwrite], <<"root">>)) = 2

\* C9: for every accepted total size the boot image is written from byte
\* 4 MiB on and the root image from byte 4 MiB + 100 MiB on, whatever the
\* total size and however many boot bytes were written.
C9_RegionOffsets ==
  (overwrite = ImagePath /\ overwrite \in DOMAIN fs) =>
     LET bw == WritesOf(fs[overwrite], <<"boot">>)
         rw == WritesOf(fs[overwrite], <<"root">>)
     IN /\ bw # << >> => (bw[1].off = 4 * MB /\ Contiguous(bw))
        /\ rw # << >> => (rw[1].off = 4 * MB + 100 * MB /\ Contiguous(rw))

C9_Witness ==
  /\ pc = "of.Close"
  /\ targetStorageBytes = 1100 * MB + 8192
  /\ bs = 1212
  /\ rs = 700
  /\ fs[overwrite].size = targetStorageBytes

\* C10: when the run has ended, on whatever path, no scratch file it created
\* is left: not the root image copy of overwriteFile, not the temporary boot
\* and root images, not the directory the init program was built in.
C10_ScratchRemoved ==
  pc = "done" => DOMAIN fs \cap ScratchPaths = {}

C10_Witness ==
  /\ pc = "done"
  /\ err = "updating boot file system"
  /\ tmpBoot.path = TmpBootPath
  /\ tmpRoot.path = TmpRootPath

ExtentErrors == {"extents /vmlinuz", "extents /cmdline.txt"}
MBRPcs == {"of.writeMBR", "dev.writeMBR"}
Count(seq, S) == Cardinality({i \in DOMAIN seq : seq[i] \in S})
HasWrite(p, kind) ==
  p \in DOMAIN fs /\ \E i \in DOMAIN fs[p].writes : fs[p].writes[i].src[1] = kind

\* C11: when the extent lookup of the kernel or of the command line fails,
\* the boot-sector step returns that error without seeking to or writing at
\* byte 0, and the run ends there: the lookup was made once, no boot sector
\* and no root bytes are in any file, the transient root file was never
\* created, partition 2 was never written, and no remote call was issued.
C11_ExtentFailureStops ==
  err \in ExtentErrors =>
    /\ pc = "done"
    /\ steps[Len(steps)] \in MBRPcs
    /\ Count(steps, MBRPcs) = 1
    /\ \A p \in DOMAIN fs : ~HasWrite(p, "mbr") /\ ~HasWrite(p, "root")
    /\ partitionPath(overwrite, "2") \notin DOMAIN fs
    /\ TmpOFPath \notin DOMAIN fs
    /\ tmp = NoFile
    /\ (overwrite = ImagePath => f.pos = bootSeekOffset + bs)
    /\ calls = << >>

C11_Witness ==
  /\ err = "extents /cmdline.txt"
  /\ overwrite = ImagePath
  /\ vmlinuzOffset = 2048
  /\ HasWrite(overwrite, "boot")
  /\ steps[Len(steps)] = "of.writeMBR"

\* C12: whenever the run reaches the first remote call, and from then on,
\* the root source and the boot source are both set, each to a file that
\* was materialized, whichever output flags were given.
C12_SourcesSet ==
  (pc = "UpdateRoot" \/ calls # << >>) =>
    /\ rootReader.set /\ Exists(rootReader.path)
    /\ bootReader.set /\ Exists(bootReader.path)

\* C13: on a block device the boot region is written to partition 1 only
\* once its node exists: whatever the run has put at the path of partition 1
\* went to the partition node, and a run whose boot step found no node ended
\* with an error and wrote nothing at that path.
C13_BootOnlyOnNode ==
  overwrite \in DevicePaths =>
    LET p1 == partitionPath(overwrite, "1") IN
    /\ Exists(p1) => p1 \in nodes
    /\ (pc \in {"dev.writeMBR", "dev.writeRoot"} \cup PostPcs) => p1 \in nodes

\* C14 as stated: every error a local step produced, the close of the
\* transient file included, ended the run and is the error of the run.
C14_NoErrorDiscarded ==
  \A i \in DOMAIN failed : pc = "done" /\ err = failed[i].err

\* C14: every error that a step returned to its caller ended the run with
\* that error: the failed step is the last step executed, so no local step
\* and no remote call came after it, and it is the only such error.  The
\* only errors with no effect on the run are those of the deferred close of
\* the transient root file; a run that ended with an error ended with the
\* error some step returned.
C14_ReturnedErrorsTerminate ==
  /\ \A i \in DOMAIN failed :
       IF failed[i].deferred
       THEN /\ failed[i].err = "close tmp"
            /\ failed[i].step \in {"of.writeRoot", "of.tmpSeek", "of.Copy",
                                   "of.Close"}
       ELSE /\ pc = "done"
            /\ err = failed[i].err
            /\ failed[i].step = steps[Len(steps)]
            /\ \A j \in DOMAIN failed : ~failed[j].deferred => j = i
  /\ (pc = "done" /\ err \notin {Nil, "usage"}) =>
        \E i \in DOMAIN failed : ~failed[i].deferred /\ failed[i].err = err
  /\ (pc # "done") => err = Nil

C14_Witness ==
  /\ pc = "done"
  /\ Len(failed) = 2
  /\ failed[1].step = "of.Copy" /\ ~failed[1].deferred /\ err = failed[1].err
  /\ failed[2].deferred
  /\ calls = << >>

DeviceOrder == <<"partition", "sleep", "dev.writeBoot", "dev.writeMBR",
                 "dev.writeRoot">>
FileOrder == <<"of.Create", "of.Truncate", "of.writePartitionTable",
               "of.SeekBoot", "of.writeBoot", "of.writeMBR", "of.SeekRoot",
               "of.TempFile", "of.writeRoot", "of.tmpSeek", "of.Copy",
               "of.Close">>
DevicePcs == SeqToSet(DeviceOrder)
FilePcs == SeqToSet(FileOrder)
StepsAmong(S) == SelectSeq(steps, LAMBDA s : s \in S)
FirstWrite(p, kind) ==
  CHOOSE i \in DOMAIN fs[p].writes :
    /\ fs[p].writes[i].src[1] = kind
    /\ \A j \in 1..(i - 1) : fs[p].writes[j].src[1] # kind

\* C15: the local steps of either variant are executed in the order of the
\* code, each once and none skipped (device: partition, wait, boot, boot
\* sector, root; file: create, truncate, partition table, boot, boot sector,
\* root), and a run that got past them executed them all.  In the target the
\* boot sector is written after every boot byte and the root bytes after the
\* boot sector; on a device the boot sector is written only when partition 1
\* holds the boot bytes and partition 2 only when the boot sector is written.
C15_StepOrder ==
  /\ IsPrefix(StepsAmong(DevicePcs), DeviceOrder)
  /\ IsPrefix(StepsAmong(FilePcs), FileOrder)
  /\ StepsAmong(DevicePcs) = << >> \/ StepsAmong(FilePcs) = << >>
  /\ (pc \in PostPcs /\ overwrite # NoPath) =>
        \/ StepsAmong(DevicePcs) = DeviceOrder
        \/ StepsAmong(FilePcs) = FileOrder
  /\ (overwrite = ImagePath /\ Exists(overwrite)) =>
        LET ws == fs[overwrite].writes IN
        /\ HasWrite(overwrite, "boot") =>
              /\ HasWrite(overwrite, "ptable")
              /\ FirstWrite(overwrite, "ptable") < FirstWrite(overwrite, "boot")
        /\ HasWrite(overwrite, "mbr") =>
              /\ BytesOf(fs[overwrite], <<"boot">>) = bs
              /\ \A i \in DOMAIN ws :
                   ws[i].src[1] = "boot" => i < FirstWrite(overwrite, "mbr")
        /\ HasWrite(overwrite, "root") =>
              /\ HasWrite(overwrite, "mbr")
              /\ FirstWrite(overwrite, "mbr") < FirstWrite(overwrite, "root")
  /\ overwrite \in DevicePaths =>
        /\ HasWrite(overwrite, "mbr") =>
              HasWrite(partitionPath(overwrite, "1"), "boot")
        /\ Exists(partitionPath(overwrite, "2")) => HasWrite(overwrite, "mbr")

C15_Witness ==
  /\ pc = "print"
  /\ overwrite = ImagePath
  /\ StepsAmong(FilePcs) = FileOrder
  /\ HasWrite(overwrite, "root")
  /\ FirstWrite(overwrite, "boot") < FirstWrite(overwrite, "mbr")

UpdatePcs == {"readers", "url", "UpdateRoot", "UpdateBoot", "Switch", "Reboot",
              "return"}

\* C16: with -update empty the run never enters the update phase: no
\* transfer source is opened, none of the four remote calls is issued, and a
\* run that got through materialization ends there without an error.
C16_NoUpdateNoTransfer ==
  update = "" =>
    /\ pc \notin UpdatePcs
    /\ \A i \in DOMAIN steps : steps[i] \notin UpdatePcs
    /\ rootReader = NilReader /\ bootReader = NilReader
    /\ calls = << >>
    /\ (steps # << >> /\ steps[Len(steps)] = "print") =>
          (pc = "done" /\ err = Nil)

C16_Witness ==
  /\ update = ""
  /\ overwrite = ImagePath
  /\ HasWrite(overwrite, "root")
  /\ steps[Len(steps)] = "print"
  /\ pc = "done"
  /\ err = Nil

DumpPcs == {"main", "prepare", "init", "done"}

\* C17: with -overwrite_init set and -init_pkg empty the run ends at the
\* dump of the init source, whatever -overwrite, -overwrite_boot,
\* -overwrite_root and -update hold: no step after it is executed, the only
\* file created is the dump, a target that existed is untouched, no file
\* holds boot, boot-sector, partition-table or root bytes, and no remote call
\* is issued.
C17_InitDumpOnly ==
  (overwriteInit # NoPath /\ initPkg = "") =>
    /\ pc \in DumpPcs
    /\ \A i \in DOMAIN steps : steps[i] \in DumpPcs
    /\ DOMAIN fs \subseteq {overwrite, overwriteInit}
    /\ Exists(overwrite) => fs[overwrite] = OldFile
    /\ \A p \in DOMAIN fs : \A k \in {"boot", "mbr", "ptable", "root"} :
         ~HasWrite(p, k)
    /\ rootReader = NilReader /\ bootReader = NilReader
    /\ calls = << >>
    /\ (steps # << >> /\ steps[Len(steps)] = "init") =>
          /\ pc = "done"
          /\ err \in {Nil, "dumpInit"}
          /\ err = Nil <=> Exists(overwriteInit)

C17_Witness ==
  /\ overwriteInit = InitPath
  /\ initPkg = ""
  /\ overwrite = ImagePath
  /\ overwriteBoot # NoPath
  /\ update = "yes"
  /\ pc = "done"
  /\ steps[Len(steps)] = "init"
  /\ err = Nil
  /\ Exists(InitPath)
  /\ Exists(overwrite)
  /\ fs[overwrite] = OldFile

\* C18: a Seek through the adapter returns a position of the underlying
\* stream: Seek(P, SeekStart) returns P + K, not P; the adapter holds its
\* base offset and nothing else, so the position is the stream's; and
\* Seek(0, SeekCurrent) returns the stream's position, which right after
\* Seek(P, SeekStart) is P + K.
C18_ReturnedPosition ==
  /\ DOMAIN ors = {"offset"}
  /\ (last.op = "seek" /\ last.err = Nil) =>
        /\ last.ret = under.pos
        /\ last.whence = "SeekStart" => last.ret = last.offset + last.k
        /\ (last.whence = "SeekCurrent" /\ last.offset = 0) =>
              /\ last.ret = last.before
              /\ last.after = "SeekStart" => last.ret = last.prev + last.k

C18_Witness ==
  /\ last.op = "seek"
  /\ last.err = Nil
  /\ last.whence = "SeekCurrent"
  /\ last.offset = 0
  /\ last.after = "SeekStart"
  /\ last.prev = 1
  /\ last.k = 2
  /\ last.ret = 3

====
